---- MODULE Spec2Model ----
(***************************************************************************)
(* A model of silva.js: the plugin registry (PluginManager), the main      *)
(* messages.upsert handler (mode check, command parsing, built-in          *)
(* commands, plugin lookup, permission checks, handler execution) and the  *)
(* anti-delete message cache with its messages.update recovery handler.    *)
(*                                                                         *)
(* A handler invocation is an async function: it runs synchronously from   *)
(* one await to the next.  Every action below is one such synchronous      *)
(* stretch; the task's pc names the await it is suspended on.              *)
(***************************************************************************)
EXTENDS Naturals, Sequences, FiniteSets, TLC

VARIABLES
    MODE,             \* config.MODE
    cfg,              \* the read-only part of config
    commandHandlers,  \* plugins.commandHandlers: Map(regex object -> handler), in insertion order
    pluginInfo,       \* plugins.pluginInfo: Map(regex source -> requirement flags)
    tasks,            \* invocations of the main messages.upsert handler
    messageCache,     \* messageCache: Map(cacheKey -> {message, timestamp})
    now,              \* Date.now()
    lastRun,          \* time of the last run of the caching messages.upsert handler
    upd,              \* the invocation of the messages.update handler
    antidelete,       \* config.ANTIDELETE_GROUP, _PRIVATE, _SEND_TO_ORIGINAL
    del               \* the invocation of the messages.delete handler

vars == <<MODE, cfg, commandHandlers, pluginInfo, tasks, messageCache, now, lastRun, upd,
          antidelete, del>>

dispatchVars == <<MODE, cfg, commandHandlers, pluginInfo, tasks>>
cacheVars == <<messageCache, now, lastRun, upd>>
deleteVars == <<antidelete, del>>

(***************************************************************************)
(* Bounds of the model.                                                    *)
(***************************************************************************)
MaxBatch == 2        \* messages in one messages.upsert batch
MaxNow == 3          \* clock ticks (of half a retention window) the clock may reach
MaxUpdates == 2      \* updates in one messages.update event
MaxLoads == 2        \* runs of loadPlugins
MaxKeys == 2         \* keys in one messages.delete event

None == "none"

(***************************************************************************)
(* JIDs.  A JID is user@server; isJidGroup looks at the server part.       *)
(***************************************************************************)
Jid(u, s) == [user |-> u, server |-> s]
ownerJid == Jid("owner", "s.whatsapp.net")
userJid == Jid("user", "s.whatsapp.net")
botJid == Jid("bot", "s.whatsapp.net")
groupJid == Jid("g1", "g.us")
newsletterJid == Jid("n1", "newsletter")
statusJid == Jid("status", "broadcast")
NoJid == Jid("", "")

isJidGroup(j) == j.server = "g.us"
isNewsletterJid(j) == j.server = "newsletter"

(***************************************************************************)
(* String.prototype.toLowerCase on the tokens the model sends.             *)
(***************************************************************************)
toLowerCase(w) ==
    CASE w = "GT" -> "gt"
      [] w = "PUBLIC" -> "public"
      [] OTHER -> w

(***************************************************************************)
(* Command patterns.  A plugin's command is a regular expression           *)
(* /^(a|b)$/ with or without the i flag; source is its text.               *)
(***************************************************************************)
Aliases(source) ==
    CASE source = "^(grouptest|gt)$" -> {"grouptest", "gt"}
      [] source = "^(kick|gt)$" -> {"kick", "gt"}
      [] source = "^(ping)$" -> {"ping"}
      [] source = "^(GT)$" -> {"GT"}
      [] OTHER -> {}

Regex(source, ci) == [source |-> source, ci |-> ci]

RegexTest(re, w) ==
    IF re.ci
    THEN toLowerCase(w) \in {toLowerCase(a) : a \in Aliases(re.source)}
    ELSE w \in Aliases(re.source)

(***************************************************************************)
(* Plugin definitions: what require(pluginPath) yields for a file.         *)
(***************************************************************************)
Flags == [group : BOOLEAN, admin : BOOLEAN, botAdmin : BOOLEAN, owner : BOOLEAN]
NoFlags == [group |-> FALSE, admin |-> FALSE, botAdmin |-> FALSE, owner |-> FALSE]
FlagCount(f) ==
    (IF f.group THEN 1 ELSE 0) + (IF f.admin THEN 1 ELSE 0)
    + (IF f.botAdmin THEN 1 ELSE 0) + (IF f.owner THEN 1 ELSE 0)
FewFlags == {f \in Flags : FlagCount(f) <= 1}

\* load is how require(pluginPath) ends: it returns the module ("ok"), throws
\* an object ("throw") or throws null or undefined ("throwNullish").  command
\* is NoRegex when handler.command is missing; execute tells whether the
\* handler has an execute function.
NoRegex == Regex("", FALSE)

Definition(file, re, f) ==
    [file |-> file, command |-> re, flags |-> f, load |-> "ok", execute |-> TRUE]

\* silvaxlab/test.js
grouptest == Definition("test.js", Regex("^(grouptest|gt)$", TRUE),
                 [group |-> TRUE, admin |-> FALSE, botAdmin |-> FALSE, owner |-> FALSE])

(***************************************************************************)
(* PluginManager.loadPlugins.  Every load re-evaluates the module          *)
(* (require.cache is cleared), so handler.command is a new RegExp object:  *)
(* obj stands for its identity.  commandHandlers is keyed by the object,   *)
(* pluginInfo by the pattern's source text.                                *)
(***************************************************************************)
MapSet(entries, key, val) ==
    IF \E i \in 1..Len(entries) : entries[i].obj = key
    THEN [i \in 1..Len(entries) |->
             IF entries[i].obj = key THEN [obj |-> key, handler |-> val] ELSE entries[i]]
    ELSE Append(entries, [obj |-> key, handler |-> val])


InfoSet(info, source, val) ==
    [s \in DOMAIN info \cup {source} |-> IF s = source THEN val ELSE info[s]]

\* handler.execute is undefined
NoCallback == [file |-> "", gen |-> 0]

\* The body of the loop for one file: the require that throws an object is
\* caught and logged, the module without handler.command is logged as
\* invalid, any other module is stored.
LoadOne(reg, def, gen) ==
    LET obj == [file |-> def.file, gen |-> gen]
        handler == [command |-> def.command,
                    execute |-> IF def.execute THEN obj ELSE NoCallback,
                    flags |-> def.flags]
    IN  IF def.load = "throw" \/ def.command = NoRegex
        THEN reg
        ELSE [handlers |-> MapSet(reg.handlers, obj, handler),
              info |-> InfoSet(reg.info, def.command.source, def.flags)]

\* The loop over the files.  catch (error) of a file reads error.message,
\* which throws when require threw null or undefined: the outer catch of
\* loadPlugins takes it and the remaining files are not loaded.
RECURSIVE LoadFiles(_, _, _)
LoadFiles(reg, dir, gen) ==
    IF dir = <<>> THEN reg
    ELSE IF Head(dir).load = "throwNullish" THEN reg
    ELSE LoadFiles(LoadOne(reg, Head(dir), gen), Tail(dir), gen)

EmptyRegistry == [handlers |-> <<>>, info |-> <<>>]

\* The plugin directories the model starts from: empty, one file with any
\* requirement flags, two files whose patterns have the same source text or
\* share an alias, a file whose pattern takes the token of a core command, or
\* a file whose pattern has an upper-case alias and no i flag.
PluginDirs ==
    {<<>>, <<Definition("ping.js", Regex("^(ping)$", TRUE), NoFlags)>>,
     <<Definition("upper.js", Regex("^(GT)$", FALSE), NoFlags)>>}
    \cup {<<Definition("test.js", Regex("^(grouptest|gt)$", TRUE), f)>> : f \in Flags}
    \cup {<<Definition("a.js", Regex("^(grouptest|gt)$", TRUE), f),
            Definition("b.js", Regex(s, ci), g)>> :
            f \in FewFlags, g \in FewFlags,
            s \in {"^(grouptest|gt)$"}, ci \in {FALSE}}
    \cup {<<Definition("a.js", Regex("^(grouptest|gt)$", TRUE), f),
            Definition("b.js", Regex("^(kick|gt)$", TRUE), g)>> :
            f \in FewFlags, g \in FewFlags}

(***************************************************************************)
(* Inbound messages of a messages.upsert batch.  The text content is the   *)
(* prefix (present or not) followed by whitespace-separated words.         *)
(***************************************************************************)
Key(remoteJid, participant, fromMe) ==
    [remoteJid |-> remoteJid, participant |-> participant, fromMe |-> fromMe]

Keys ==
    {Key(ownerJid, NoJid, FALSE), Key(userJid, NoJid, FALSE), Key(userJid, NoJid, TRUE),
     Key(groupJid, ownerJid, FALSE), Key(groupJid, userJid, FALSE),
     Key(groupJid, botJid, TRUE), Key(newsletterJid, NoJid, FALSE),
     Key(statusJid, userJid, FALSE)}

Text(pfx, words) == [pfx |-> pfx, words |-> words]

Texts ==
    {Text(FALSE, <<"hello">>), Text(TRUE, <<>>),
     Text(TRUE, <<"ping">>), Text(TRUE, <<"alive">>), Text(TRUE, <<"menu">>),
     Text(TRUE, <<"resetsession">>),
     Text(TRUE, <<"mode">>), Text(TRUE, <<"mode", "private">>),
     Text(TRUE, <<"mode", "PUBLIC">>), Text(TRUE, <<"mode", "bogus">>),
     Text(TRUE, <<"gt">>), Text(TRUE, <<"GT", "x">>), Text(TRUE, <<"kick">>),
     Text(TRUE, <<"nope">>)}

\* m.message is undefined
NoContent == [type |-> "none", text |-> Text(FALSE, <<>>)]

Contents ==
    {NoContent, [type |-> "stickerMessage", text |-> Text(FALSE, <<>>)]}
    \cup {[type |-> "conversation", text |-> x] : x \in Texts}

Messages ==
    {[key |-> k, message |-> c] : k \in {x \in Keys : x.remoteJid # statusJid}, c \in Contents}
    \cup {[key |-> Key(statusJid, userJid, FALSE),
           message |-> [type |-> "conversation", text |-> Text(FALSE, <<"hello">>)]]}

NoMessage == [key |-> Key(NoJid, NoJid, FALSE), message |-> NoContent]

(***************************************************************************)
(* One invocation of the main messages.upsert handler.  tr is the trace of *)
(* what the handler did for the current message: sends, group-metadata     *)
(* queries, handler calls and log lines, each with its outcome.            *)
(***************************************************************************)
Ev(k, v, res) == [k |-> k, v |-> v, res |-> res, type |-> "", gen |-> 0]

NoHandler == [command |-> NoRegex, execute |-> NoCallback, flags |-> NoFlags]

IdleTask ==
    [pc |-> "idle", left |-> 0, m |-> NoMessage, isOwner |-> FALSE, modeSeen |-> None,
     command |-> "", args |-> <<>>, handler |-> NoHandler, info |-> NoFlags,
     pluginFound |-> FALSE, snd |-> None, chk |-> None, tr |-> <<>>, term |-> None]

logMessage(tk, type, message, detail) ==
    [tk EXCEPT !.tr = Append(@, [Ev("log", message, detail) EXCEPT !.type = type])]

\* The call is made: the task suspends on it.
Call(tk, k, v, pc) ==
    [tk EXCEPT !.tr = Append(@, Ev(k, v, "pending")), !.pc = pc]

\* The awaited call settles with res.
Settle(tk, res) ==
    [tk EXCEPT !.tr = [@ EXCEPT ![Len(@)] = [@ EXCEPT !.res = res]], !.snd = None, !.chk = None]

\* sock.sendMessage(sender, content, { quoted: m }); the options are absent in
\* the send of the sender-key message only.  type records the quoting.
sendMessage(tk, kind) ==
    LET t1 == Call(tk, "send", kind, "aSend") IN
    [t1 EXCEPT !.snd = kind,
               !.tr[Len(t1.tr)].type = IF kind = "senderKey" THEN "" ELSE "quoted"]
groupMetadata(tk, check) == [Call(tk, "query", check, "aQuery") EXCEPT !.chk = check]

\* `continue` and `break`: the message is done, the for loop goes on.
Continue(tk, term) == [tk EXCEPT !.pc = "done", !.left = @ - 1, !.term = term]

\* An exception reaches the handler's outer catch: the handler returns.
OuterCatch(tk) ==
    [logMessage(tk, "ERROR", "messages.upsert handler error", "")
        EXCEPT !.pc = "idle", !.left = @ - 1, !.term = "Aborted"]

isGroupMsg(tk) == isJidGroup(tk.m.key.remoteJid)

(***************************************************************************)
(* The plugin command handling: lookup, permission checks, execution.      *)
(***************************************************************************)
\* catch (err) of the plugin try block
PluginCatch(tk) ==
    sendMessage(logMessage(tk, "ERROR", "Plugin failed", tk.command), "failureNotice")

\* handler.execute(context); calling what is no function throws a TypeError
\* inside the try block.
Execute(tk) ==
    LET t0 == logMessage(tk, "PLUGIN", "Executing plugin command", tk.command)
        t1 == Call(t0, "execute", tk.handler.execute.file, "aExec")
    IN  IF tk.handler.execute = NoCallback
        THEN PluginCatch(t0)
        ELSE [t1 EXCEPT !.tr = [@ EXCEPT ![Len(@)] = [@ EXCEPT !.gen = tk.handler.execute.gen]]]

BotAdminCheck(tk) ==
    IF tk.info.botAdmin /\ isGroupMsg(tk)
    THEN groupMetadata(tk, "botAdmin")
    ELSE Execute(tk)

AdminCheck(tk) ==
    IF tk.info.admin /\ isGroupMsg(tk)
    THEN groupMetadata(tk, "admin")
    ELSE BotAdminCheck(tk)

GroupCheck(tk) ==
    IF tk.info.group /\ ~isGroupMsg(tk)
    THEN sendMessage(tk, "groupRefusal")
    ELSE AdminCheck(tk)

OwnerCheck(tk) ==
    IF tk.info.owner /\ ~tk.isOwner
    THEN sendMessage(tk, "ownerRefusal")
    ELSE GroupCheck(tk)

\* plugins.pluginInfo.get(cmdRegex.source); undefined reads as no requirement
InfoGet(source) ==
    IF source \in DOMAIN pluginInfo THEN pluginInfo[source] ELSE NoFlags

Matching(command) ==
    {i \in 1..Len(commandHandlers) : RegexTest(commandHandlers[i].handler.command, command)}

\* PluginLookup with the first registered handler taking what nothing matches
PluginLookup_Fallback(tk) ==
    LET hit == IF Matching(tk.command) = {} THEN 1..Len(commandHandlers)
               ELSE Matching(tk.command)
    IN
    IF hit = {}
    THEN Continue(logMessage(tk, "WARN", "Command not found", tk.command), "NotFound")
    ELSE LET i == CHOOSE j \in hit : \A l \in hit : j <= l
             handler == commandHandlers[i].handler
         IN  OwnerCheck([tk EXCEPT !.pluginFound = TRUE, !.handler = handler,
                                   !.info = InfoGet(handler.command.source)])

PluginLookup(tk) ==
    LET hit == Matching(tk.command) IN
    IF hit = {}
    THEN Continue(logMessage(tk, "WARN", "Command not found", tk.command), "NotFound")
    ELSE LET i == CHOOSE j \in hit : \A l \in hit : j <= l
             handler == commandHandlers[i].handler
         IN  OwnerCheck([tk EXCEPT !.pluginFound = TRUE, !.handler = handler,
                                   !.info = InfoGet(handler.command.source)])

(***************************************************************************)
(* The core commands, matched before the plugins.                          *)
(***************************************************************************)
ValidMode(args) == args # <<>> /\ toLowerCase(args[1]) \in {"private", "public"}

\* Core with the plugins looked up before the core commands
Core_PluginsFirst(tk) ==
    IF Matching(tk.command) # {} THEN PluginLookup(tk)
    ELSE
    CASE tk.command = "ping" -> sendMessage(tk, "pong")
      [] tk.command = "mode" ->
            IF ~tk.isOwner THEN sendMessage(tk, "ownerOnly")
            ELSE IF ~ValidMode(tk.args) THEN sendMessage(tk, "modeUsage")
            ELSE sendMessage(tk, "modeChanged")
      [] tk.command = "resetsession" ->
            IF ~tk.isOwner THEN sendMessage(tk, "ownerOnly")
            ELSE IF isGroupMsg(tk) THEN sendMessage(tk, "senderKey")
            ELSE sendMessage(tk, "sessionReset")
      [] tk.command = "alive" -> sendMessage(tk, "alive")
      [] tk.command = "menu" -> sendMessage(tk, "menu")
      [] OTHER -> PluginLookup(tk)

Core(tk) ==
    CASE tk.command = "ping" -> sendMessage(tk, "pong")
      [] tk.command = "mode" ->
            IF ~tk.isOwner THEN sendMessage(tk, "ownerOnly")
            ELSE IF ~ValidMode(tk.args) THEN sendMessage(tk, "modeUsage")
            ELSE sendMessage(tk, "modeChanged")
      [] tk.command = "resetsession" ->
            IF ~tk.isOwner THEN sendMessage(tk, "ownerOnly")
            ELSE IF isGroupMsg(tk) THEN sendMessage(tk, "senderKey")
            ELSE sendMessage(tk, "sessionReset")
      [] tk.command = "alive" -> sendMessage(tk, "alive")
      [] tk.command = "menu" -> sendMessage(tk, "menu")
      [] OTHER -> PluginLookup(tk)

\* ModeAfter without the owner test of the mode command
ModeAfter_AnySender(old, new) ==
    IF old.pc # "aSend" /\ new.pc = "aSend" /\ new.command = "mode" /\ ValidMode(new.args)
    THEN toLowerCase(new.args[1])
    ELSE MODE

\* config.MODE = newMode, made by the mode command before its reply is sent
ModeAfter(old, new) ==
    IF old.pc # "aSend" /\ new.pc = "aSend" /\ new.snd = "modeChanged"
    THEN toLowerCase(new.args[1])
    ELSE MODE

(***************************************************************************)
(* From the top of the for loop to the command.                            *)
(***************************************************************************)
TextTypes == {"conversation", "extendedTextMessage", "imageMessage", "videoMessage",
              "documentMessage"}

Parse(tk) ==
    LET c == tk.m.message IN
    IF c.type \notin TextTypes THEN Continue(tk, "NotCommand")
    ELSE IF ~c.text.pfx THEN Continue(tk, "NotCommand")
    ELSE LET words == c.text.words
             cmd == IF words = <<>> THEN "" ELSE Head(words)
             t1 == [tk EXCEPT !.command = toLowerCase(cmd),
                              !.args = IF words = <<>> THEN <<>> ELSE Tail(words)]
         IN  IF cfg.READ_MESSAGE THEN Call(t1, "read", "readMessages", "aRead")
             ELSE Core(t1)

IsOwner(m) == m.key.remoteJid = ownerJid \/ m.key.fromMe

\* ModeCheck with the private mode applied to private chats only
ModeCheck_PrivateChatsOnly(tk) ==
    LET t1 == [tk EXCEPT !.isOwner = IsOwner(tk.m), !.modeSeen = MODE] IN
    IF MODE = "private" /\ ~t1.isOwner /\ ~isGroupMsg(tk)
    THEN Continue(logMessage(t1, "DEBUG", "Private mode: Non-owner message ignored", ""),
                  "Dropped")
    ELSE Parse(t1)

ModeCheck(tk) ==
    LET t1 == [tk EXCEPT !.isOwner = IsOwner(tk.m), !.modeSeen = MODE] IN
    IF MODE = "private" /\ ~t1.isOwner
    THEN Continue(logMessage(t1, "DEBUG", "Private mode: Non-owner message ignored", ""),
                  "Dropped")
    ELSE Parse(t1)

Receive(tk, m) ==
    LET t0 == [IdleTask EXCEPT !.left = tk.left, !.m = m] IN
    IF m.key.remoteJid = statusJid
    THEN Continue([t0 EXCEPT !.tr = <<Ev("status", "handled", "ok")>>], "NotCommand")
    ELSE IF m.message = NoContent THEN Continue(t0, "NotCommand")
    ELSE IF isNewsletterJid(m.key.remoteJid) /\ cfg.AUTO_REACT_NEWSLETTER
         THEN Call(t0, "react", "newsletter", "aReact")
         ELSE ModeCheck(t0)

(***************************************************************************)
(* The actions of the main messages.upsert handler.                        *)
(***************************************************************************)
EventTypes == {"notify", "append", "prepend"}

\* sock.ev.emit('messages.upsert', {messages, type}) with n messages
Upsert(t, n, type) ==
    /\ tasks[t].pc = "idle"
    /\ tasks' = [tasks EXCEPT ![t] =
                    IF n = 0 THEN IdleTask
                    ELSE IF type \notin {"notify", "append"}
                    THEN logMessage(IdleTask, "DEBUG", "Skipping message type", type)
                    ELSE [IdleTask EXCEPT !.pc = "loop", !.left = n]]
    /\ UNCHANGED <<MODE, cfg, commandHandlers, pluginInfo, cacheVars, deleteVars>>

\* for (const m of messages): the next message, up to its first await
StartMessage(t, m) ==
    /\ tasks[t].pc = "loop"
    /\ tasks[t].left > 0
    /\ LET new == Receive(tasks[t], m) IN
        /\ tasks' = [tasks EXCEPT ![t] = new]
        /\ MODE' = ModeAfter(tasks[t], new)
    /\ UNCHANGED <<cfg, commandHandlers, pluginInfo, cacheVars, deleteVars>>

\* NextIteration taken while the call the message awaits is still pending
NextIteration_Eager(t) ==
    /\ tasks[t].pc \in {"done", "aSend", "aQuery", "aExec"}
    /\ tasks' = [tasks EXCEPT ![t] = [IdleTask EXCEPT !.pc = "loop", !.left = tasks[t].left]]
    /\ UNCHANGED <<MODE, cfg, commandHandlers, pluginInfo, cacheVars, deleteVars>>

\* back at the top of the for loop
NextIteration(t) ==
    /\ tasks[t].pc = "done"
    /\ tasks' = [tasks EXCEPT ![t] = [IdleTask EXCEPT !.pc = "loop", !.left = tasks[t].left]]
    /\ UNCHANGED <<MODE, cfg, commandHandlers, pluginInfo, cacheVars, deleteVars>>

\* the for loop is over: the handler returns
EndBatch(t) ==
    /\ tasks[t].pc = "loop"
    /\ tasks[t].left = 0
    /\ tasks' = [tasks EXCEPT ![t] = IdleTask]
    /\ UNCHANGED <<MODE, cfg, commandHandlers, pluginInfo, cacheVars, deleteVars>>

\* the newsletter auto-react settles (its failure is caught and logged)
ReactDone(t, ok) ==
    /\ tasks[t].pc = "aReact"
    /\ LET tk == Settle(tasks[t], IF ok THEN "ok" ELSE "throw")
           new == ModeCheck(IF ok THEN tk
                            ELSE logMessage(tk, "ERROR", "Newsletter react failed", ""))
       IN  /\ tasks' = [tasks EXCEPT ![t] = new]
           /\ MODE' = ModeAfter(tasks[t], new)
    /\ UNCHANGED <<cfg, commandHandlers, pluginInfo, cacheVars, deleteVars>>

\* sock.readMessages settles: try { await ... } catch (e) { /* ignore */ }
ReadDone(t, ok) ==
    /\ tasks[t].pc = "aRead"
    /\ LET new == Core(Settle(tasks[t], "settled")) IN
        /\ tasks' = [tasks EXCEPT ![t] = new]
        /\ MODE' = ModeAfter(tasks[t], new)
    /\ UNCHANGED <<cfg, commandHandlers, pluginInfo, cacheVars, deleteVars>>

CoreReplies == {"pong", "modeUsage", "modeChanged", "sessionReset", "groupReset", "alive", "menu"}

\* What follows a sock.sendMessage that resolved (ok) or threw.
AfterSend(tk, kind, ok) ==
    CASE kind \in CoreReplies -> IF ok THEN Continue(tk, "Succeeded") ELSE OuterCatch(tk)
      [] kind = "ownerOnly" -> IF ok THEN Continue(tk, "Rejected") ELSE OuterCatch(tk)
      [] kind = "senderKey" -> IF ok THEN sendMessage(tk, "groupReset") ELSE OuterCatch(tk)
      [] kind \in {"ownerRefusal", "groupRefusal"} ->
            IF ok THEN Continue(tk, "Rejected") ELSE PluginCatch(tk)
      [] kind = "adminRefusal" ->
            IF ok THEN Continue(tk, "Rejected")
            ELSE BotAdminCheck(logMessage(tk, "WARN", "Admin check failed", ""))
      [] kind = "botAdminRefusal" ->
            IF ok THEN Continue(tk, "Rejected")
            ELSE Execute(logMessage(tk, "WARN", "Bot admin check failed", ""))
      [] kind = "failureNotice" ->
            IF ok THEN Continue(tk, "Failed")
            ELSE Continue(logMessage(tk, "WARN", "Could not send error message", ""), "Failed")

SendDone(t, ok) ==
    /\ tasks[t].pc = "aSend"
    /\ tasks' = [tasks EXCEPT ![t] =
                    AfterSend(Settle(tasks[t], IF ok THEN "ok" ELSE "throw"), tasks[t].snd, ok)]
    /\ UNCHANGED <<MODE, cfg, commandHandlers, pluginInfo, cacheVars, deleteVars>>

\* AfterQuery reading the requirement flags again from the registry
AfterQuery_RereadsInfo(tk, check, res) ==
    LET t1 == [tk EXCEPT !.info = InfoGet(tk.handler.command.source)] IN
    CASE check = "admin" ->
            IF res = "throw"
            THEN BotAdminCheck(logMessage(t1, "WARN", "Admin check failed", ""))
            ELSE IF res = "notAdmin" THEN sendMessage(t1, "adminRefusal")
            ELSE BotAdminCheck(t1)
      [] check = "botAdmin" ->
            IF res = "throw"
            THEN Execute(logMessage(t1, "WARN", "Bot admin check failed", ""))
            ELSE IF res = "notAdmin" THEN sendMessage(t1, "botAdminRefusal")
            ELSE Execute(t1)

\* What follows a sock.groupMetadata that threw ("throw") or returned a
\* participant list in which the looked-up participant is an admin ("admin")
\* or is not, or is absent ("notAdmin").
AfterQuery(tk, check, res) ==
    CASE check = "admin" ->
            IF res = "throw"
            THEN BotAdminCheck(logMessage(tk, "WARN", "Admin check failed", ""))
            ELSE IF res = "notAdmin" THEN sendMessage(tk, "adminRefusal")
            ELSE BotAdminCheck(tk)
      [] check = "botAdmin" ->
            IF res = "throw"
            THEN Execute(logMessage(tk, "WARN", "Bot admin check failed", ""))
            ELSE IF res = "notAdmin" THEN sendMessage(tk, "botAdminRefusal")
            ELSE Execute(tk)

QueryDone(t, res) ==
    /\ tasks[t].pc = "aQuery"
    /\ tasks' = [tasks EXCEPT ![t] = AfterQuery(Settle(tasks[t], res), tasks[t].chk, res)]
    /\ UNCHANGED <<MODE, cfg, commandHandlers, pluginInfo, cacheVars, deleteVars>>

\* How handler.execute(context) settles: it resolves ("ok"), or it throws an
\* object ("throw"), or it throws null or undefined ("throwNullish": a bare
\* Promise.reject(), throw undefined).
Outcomes == {"ok", "throw", "throwNullish"}

\* What follows handler.execute(context).  The catch block reads err.message
\* first, which itself throws when err is null or undefined.
AfterExecute(tk, res) ==
    CASE res = "ok" ->
            Continue(logMessage(tk, "SUCCESS", "Plugin executed", tk.command), "Succeeded")
      [] res = "throw" -> PluginCatch(tk)
      [] res = "throwNullish" -> OuterCatch(tk)

ExecDone(t, res) ==
    /\ tasks[t].pc = "aExec"
    /\ tasks' = [tasks EXCEPT ![t] = AfterExecute(Settle(tasks[t], res), res)]
    /\ UNCHANGED <<MODE, cfg, commandHandlers, pluginInfo, cacheVars, deleteVars>>

\* The invocations of the handler that run at a time
Tasks == {1}

DispatchNext ==
    \E t \in Tasks :
        \/ \E n \in 0..MaxBatch, type \in EventTypes : Upsert(t, n, type)
        \/ \E m \in Messages : StartMessage(t, m)
        \/ NextIteration(t)
        \/ EndBatch(t)
        \/ \E ok \in BOOLEAN : ReactDone(t, ok)
        \/ \E ok \in BOOLEAN : ReadDone(t, ok)
        \/ \E ok \in BOOLEAN : SendDone(t, ok)
        \/ \E res \in {"throw", "admin", "notAdmin"} : QueryDone(t, res)
        \/ \E res \in Outcomes : ExecDone(t, res)

Configs == [READ_MESSAGE : BOOLEAN, AUTO_REACT_NEWSLETTER : BOOLEAN]

\* The state after connection.update 'open' has loaded the plugins once.
DispatchInit ==
    /\ MODE \in {"public", "private"}
    /\ cfg \in Configs
    /\ \E dir \in PluginDirs :
          LET reg == LoadFiles(EmptyRegistry, dir, 1) IN
          /\ commandHandlers = reg.handlers
          /\ pluginInfo = reg.info
    /\ tasks = [t \in Tasks |-> IdleTask]

(***************************************************************************)
(* Reloading the plugins.  loadPlugins runs on every 'open' of the         *)
(* connection, on the same PluginManager; it has no await, so a run is one *)
(* step.  Between two runs the plugin directory may have changed.          *)
(***************************************************************************)
\* The objects a run creates are told apart by the number of the run.
NextGen ==
    LET gens == {commandHandlers[i].obj.gen : i \in 1..Len(commandHandlers)} IN
    IF gens = {} THEN 1 ELSE 1 + CHOOSE g \in gens : \A h \in gens : h <= g

ownertest == Definition("test.js", Regex("^(grouptest|gt)$", TRUE),
                 [group |-> FALSE, admin |-> FALSE, botAdmin |-> FALSE, owner |-> TRUE])
admintest == Definition("test.js", Regex("^(grouptest|gt)$", TRUE),
                 [group |-> FALSE, admin |-> TRUE, botAdmin |-> FALSE, owner |-> FALSE])
kick == Definition("kick.js", Regex("^(kick|gt)$", TRUE), NoFlags)
noexecute == [Definition("noexecute.js", Regex("^(grouptest|gt)$", TRUE), NoFlags)
                 EXCEPT !.execute = FALSE]
nocommand == Definition("nocommand.js", NoRegex, NoFlags)
broken == [Definition("lost.js", NoRegex, NoFlags) EXCEPT !.load = "throw"]
brokenNullish == [Definition("lost.js", NoRegex, NoFlags) EXCEPT !.load = "throwNullish"]

\* The listings of the plugin directory, in the order readdirSync gives.
ReloadDirs ==
    {<<>>, <<grouptest>>, <<ownertest>>, <<admintest>>, <<kick, grouptest>>,
     <<noexecute>>, <<kick, nocommand>>, <<kick, broken, grouptest>>,
     <<kick, brokenNullish, grouptest>>}

ReloadMessages ==
    {[key |-> k, message |-> [type |-> "conversation", text |-> Text(TRUE, <<w>>)]] :
        k \in {Key(ownerJid, NoJid, FALSE), Key(userJid, NoJid, FALSE),
                Key(groupJid, userJid, FALSE)},
        w \in {"gt", "kick"}}

\* plugins.loadPlugins('silvaxlab') on the directory listing dir
LoadPlugins(dir) ==
    /\ NextGen <= MaxLoads
    /\ LET reg == LoadFiles([handlers |-> commandHandlers, info |-> pluginInfo], dir, NextGen)
       IN  /\ commandHandlers' = reg.handlers
           /\ pluginInfo' = reg.info
    /\ UNCHANGED <<MODE, cfg, tasks, cacheVars, deleteVars>>

\* READ_MESSAGE and AUTO_REACT_NEWSLETTER are off here, so the read receipt
\* and the newsletter reaction are never awaited.
ReloadNext ==
    \/ \E dir \in ReloadDirs : LoadPlugins(dir)
    \/ \E t \in Tasks :
        \/ \E n \in 0..MaxBatch, type \in EventTypes : Upsert(t, n, type)
        \/ \E m \in ReloadMessages : StartMessage(t, m)
        \/ NextIteration(t)
        \/ EndBatch(t)
        \/ \E ok \in BOOLEAN : SendDone(t, ok)
        \/ \E res \in {"throw", "admin", "notAdmin"} : QueryDone(t, res)
        \/ \E res \in Outcomes : ExecDone(t, res)

\* The registry after new PluginManager(), before the connection opens.
RegistryNew ==
    /\ MODE = "public"
    /\ cfg = [READ_MESSAGE |-> FALSE, AUTO_REACT_NEWSLETTER |-> FALSE]
    /\ commandHandlers = EmptyRegistry.handlers
    /\ pluginInfo = EmptyRegistry.info
    /\ tasks = [t \in Tasks |-> IdleTask]

(***************************************************************************)
(* The anti-delete message cache: the caching messages.upsert handler and  *)
(* the messages.update recovery handler.  Time is in milliseconds; the     *)
(* clock advances in steps of half the retention window.                   *)
(***************************************************************************)
RetentionWindow == 60 * 60 * 1000
ClockStep == RetentionWindow \div 2

JidString(j) == j.user \o "@" \o j.server

\* `${m.key.remoteJid}-${m.key.id}`
CacheKey(remoteJid, id) == JidString(remoteJid) \o "-" \o id

CachedContent(type, text) == [type |-> type, text |-> text]
NoCachedContent == CachedContent("none", "")

\* The messages of a batch as the caching handler reads them: key.remoteJid,
\* key.id ("" when absent) and message (NoCachedContent when absent).
CacheMessage(remoteJid, id, message) ==
    [remoteJid |-> remoteJid, id |-> id, message |-> message]

CacheMessages ==
    {CacheMessage(userJid, "MSG1", CachedContent("conversation", "hello")),
     CacheMessage(userJid, "MSG1", CachedContent("conversation", "bye")),
     CacheMessage(userJid, "MSG1", CachedContent("imageMessage", "pic")),
     CacheMessage(statusJid, "MSG1", CachedContent("conversation", "hello")),
     CacheMessage(userJid, "", CachedContent("conversation", "hello")),
     CacheMessage(userJid, "MSG1", NoCachedContent)}

RECURSIVE SeqsUpTo(_, _)
SeqsUpTo(S, n) ==
    IF n = 0 THEN {<<>>}
    ELSE LET shorter == SeqsUpTo(S, n - 1) IN
         shorter \cup {Append(q, x) : q \in {r \in shorter : Len(r) = n - 1}, x \in S}

\* messageCache.set(cacheKey, {message, timestamp})
CacheSet(cache, key, entry) ==
    [k \in DOMAIN cache \cup {key} |-> IF k = key THEN entry ELSE cache[k]]

\* the for loop over the batch
RECURSIVE CacheAll(_, _, _)
CacheAll(cache, batch, time) ==
    IF batch = <<>> THEN cache
    ELSE LET m == Head(batch) IN
         CacheAll(IF m.message = NoCachedContent \/ m.id = ""
                  THEN cache
                  ELSE CacheSet(cache, CacheKey(m.remoteJid, m.id),
                                [message |-> m.message, timestamp |-> time]),
                  Tail(batch), time)

\* Sweep with the operands of the age swapped
Sweep_AgeSwapped(cache, time) ==
    [k \in {x \in DOMAIN cache : ~(cache[x].timestamp - time > RetentionWindow)} |-> cache[k]]

\* "Clean old cache entries (older than 1 hour)"
Sweep(cache, time) ==
    [k \in {x \in DOMAIN cache : ~(time - cache[x].timestamp > RetentionWindow)} |-> cache[k]]

\* The batches of at most MaxBatch messages
Batches == SeqsUpTo(CacheMessages, MaxBatch)

\* The caching messages.upsert handler, on any batch: synchronous, one step.
CacheUpsert ==
    /\ \E recorded \in {CacheAll(messageCache, batch, now) : batch \in Batches} :
          messageCache' = Sweep(recorded, now)
    /\ lastRun' = now
    /\ UNCHANGED <<now, upd, dispatchVars, deleteVars>>

Tick ==
    /\ now < MaxNow * ClockStep
    /\ now' = now + ClockStep
    /\ UNCHANGED <<messageCache, lastRun, upd, dispatchVars, deleteVars>>

(***************************************************************************)
(* The messages.update handler.                                            *)
(***************************************************************************)
Update(remoteJid, id, fromMe, null) ==
    [key |-> [remoteJid |-> remoteJid, id |-> id, fromMe |-> fromMe], null |-> null]

\* update.message is null (the content was deleted) or the update is another one
Updates ==
    {Update(userJid, "MSG1", FALSE, TRUE), Update(userJid, "MSG2", FALSE, TRUE),
     Update(userJid, "MSG1", TRUE, TRUE), Update(userJid, "MSG1", FALSE, FALSE),
     Update(statusJid, "MSG1", FALSE, TRUE)}

NoUpdate == Update(NoJid, "", FALSE, FALSE)

IdleUpd ==
    [pc |-> "idle", left |-> 0, u |-> NoUpdate, looked |-> FALSE, found |-> FALSE,
     original |-> [message |-> NoCachedContent, timestamp |-> 0], at |-> 0, tr |-> <<>>]

\* messageCache.get(cacheKey)
CacheHas(key) == key \in DOMAIN messageCache
CacheGet(key) ==
    IF CacheHas(key) THEN messageCache[key]
    ELSE [message |-> NoCachedContent, timestamp |-> 0]

UpdContinue(tk) == [tk EXCEPT !.pc = "done", !.left = @ - 1]
UpdLog(tk, type, message) ==
    [tk EXCEPT !.tr = Append(@, [Ev("log", message, "") EXCEPT !.type = type])]
UpdCall(tk, k, v, pc) == [tk EXCEPT !.tr = Append(@, Ev(k, v, "pending")), !.pc = pc]
UpdSettle(tk, res) == [tk EXCEPT !.tr = [@ EXCEPT ![Len(@)] = [@ EXCEPT !.res = res]]]

MediaTypes == {"imageMessage", "videoMessage", "audioMessage", "stickerMessage",
               "documentMessage"}

\* Recover sending the type of the message for its text
Recover_SendsType(tk) ==
    LET msgObj == tk.original.message IN
    IF msgObj.type \in {"conversation", "extendedTextMessage"}
    THEN UpdCall(tk, "send", msgObj.type, "aSend")
    ELSE IF msgObj.type \in MediaTypes
    THEN UpdCall(tk, "download", msgObj.type, "aDownload")
    ELSE UpdContinue(tk)

\* The body of the try block for the recovered message.
Recover(tk) ==
    LET msgObj == tk.original.message IN
    IF msgObj.type \in {"conversation", "extendedTextMessage"}
    THEN UpdCall(tk, "send", msgObj.text, "aSend")
    ELSE IF msgObj.type \in MediaTypes
    THEN UpdCall(tk, "download", msgObj.type, "aDownload")
    ELSE UpdContinue(tk)

\* One update of the event, up to its first await.
Lookup(tk, u) ==
    LET t0 == [IdleUpd EXCEPT !.left = tk.left, !.u = u] IN
    IF u.key.remoteJid = statusJid THEN UpdContinue(t0)
    ELSE IF u.null /\ ~u.key.fromMe
    THEN LET cacheKey == CacheKey(u.key.remoteJid, u.key.id)
             t1 == [t0 EXCEPT !.looked = TRUE, !.found = CacheHas(cacheKey),
                              !.original = CacheGet(cacheKey), !.at = now]
         IN  IF ~t1.found THEN UpdContinue(t1)
             ELSE Recover([t1 EXCEPT !.tr = <<Ev("send", "Anti-Delete notice", "detached")>>])
    ELSE UpdContinue(t0)

UpdateEvent(n) ==
    /\ upd.pc = "idle"
    /\ upd' = IF n = 0 THEN IdleUpd ELSE [IdleUpd EXCEPT !.pc = "loop", !.left = n]
    /\ UNCHANGED <<messageCache, now, lastRun, dispatchVars, deleteVars>>

\* UpdStart taking the entry it finds out of the cache
UpdStart_Consumes(u) ==
    /\ upd.pc = "loop"
    /\ upd.left > 0
    /\ upd' = Lookup(upd, u)
    /\ messageCache' =
          [k \in DOMAIN messageCache \ {CacheKey(u.key.remoteJid, u.key.id)} |-> messageCache[k]]
    /\ UNCHANGED <<now, lastRun, dispatchVars, deleteVars>>

UpdStart(u) ==
    /\ upd.pc = "loop"
    /\ upd.left > 0
    /\ upd' = Lookup(upd, u)
    /\ UNCHANGED <<messageCache, now, lastRun, dispatchVars, deleteVars>>

UpdNext ==
    /\ upd.pc = "done"
    /\ upd' = [IdleUpd EXCEPT !.pc = "loop", !.left = upd.left]
    /\ UNCHANGED <<messageCache, now, lastRun, dispatchVars, deleteVars>>

UpdEnd ==
    /\ upd.pc = "loop"
    /\ upd.left = 0
    /\ upd' = IdleUpd
    /\ UNCHANGED <<messageCache, now, lastRun, dispatchVars, deleteVars>>

\* downloadContentFromMessage and the reading of its stream settle
UpdDownloadDone(ok) ==
    /\ upd.pc = "aDownload"
    /\ upd' = IF ok
              THEN UpdCall(UpdSettle(upd, "ok"), "send", upd.original.message.text, "aSend")
              ELSE UpdContinue(UpdLog(UpdSettle(upd, "throw"), "DEBUG", "Recovery failed"))
    /\ UNCHANGED <<messageCache, now, lastRun, dispatchVars, deleteVars>>

\* UpdSendDone without the try block around the send
UpdSendDone_Uncaught(ok) ==
    /\ upd.pc = "aSend"
    /\ upd' = IF ok
              THEN UpdContinue(UpdSettle(upd, "ok"))
              ELSE [UpdSettle(upd, "throw") EXCEPT !.pc = "idle", !.left = @ - 1]
    /\ UNCHANGED <<messageCache, now, lastRun, dispatchVars, deleteVars>>

\* the awaited sock.sendMessage(owner, ...) settles
UpdSendDone(ok) ==
    /\ upd.pc = "aSend"
    /\ upd' = IF ok
              THEN UpdContinue(UpdSettle(upd, "ok"))
              ELSE UpdContinue(UpdLog(UpdSettle(upd, "throw"), "DEBUG", "Recovery failed"))
    /\ UNCHANGED <<messageCache, now, lastRun, dispatchVars, deleteVars>>

CacheNext ==
    \/ CacheUpsert
    \/ Tick
    \/ \E n \in 0..MaxUpdates : UpdateEvent(n)
    \/ \E u \in Updates : UpdStart(u)
    \/ UpdNext
    \/ UpdEnd
    \/ \E ok \in BOOLEAN : UpdDownloadDone(ok)
    \/ \E ok \in BOOLEAN : UpdSendDone(ok)

(***************************************************************************)
(* The messages.delete handler.  The whole for loop over the keys is in    *)
(* one try block.                                                          *)
(***************************************************************************)
Toggles == [GROUP : BOOLEAN, PRIVATE : BOOLEAN, SEND_TO_ORIGINAL : BOOLEAN]

DelKey(remoteJid, id, participant) ==
    [remoteJid |-> remoteJid, id |-> id, participant |-> participant]
DelKeys == {DelKey(userJid, "MSG1", NoJid), DelKey(groupJid, "MSG2", userJid)}
NoDelKey == DelKey(NoJid, "", NoJid)

\* What await store.loadMessage(from, key.id) gives: nothing ("none"), an
\* entry whose message is missing ("noContent"), an entry whose message has
\* the given first key, or an exception ("throw").
StoreResults ==
    {"none", "noContent", "throw", "conversation", "extendedTextMessage", "imageMessage",
     "videoMessage", "documentMessage", "stickerMessage"}

IdleDel == [pc |-> "idle", left |-> 0, key |-> NoDelKey, msgType |-> None, tr |-> <<>>,
            term |-> None]

DelLog(tk, type, message) ==
    [tk EXCEPT !.tr = Append(@, [Ev("log", message, "") EXCEPT !.type = type])]
DelCall(tk, k, v, pc) == [tk EXCEPT !.tr = Append(@, Ev(k, v, "pending")), !.pc = pc]
DelSettle(tk, res) == [tk EXCEPT !.tr = [@ EXCEPT ![Len(@)] = [@ EXCEPT !.res = res]]]
DelContinue(tk, term) == [tk EXCEPT !.pc = "done", !.left = @ - 1, !.term = term]

\* catch (err) around the loop: the handler returns
DelCatch(tk) ==
    [DelLog(tk, "ERROR", "Anti-Delete Error") EXCEPT !.pc = "idle", !.left = @ - 1,
                                                     !.term = "Aborted"]

\* config.ANTIDELETE_SEND_TO_ORIGINAL ? from : ownerJid
TargetJid(key) == IF antidelete.SEND_TO_ORIGINAL THEN "original" ELSE "owner"

DelRestored(tk) == DelContinue(DelLog(tk, "SUCCESS", "Restored deleted message"), "Restored")

\* DelReceive skipping a key only when both toggles are off
DelReceive_AnyToggle(tk, key) ==
    LET t0 == [IdleDel EXCEPT !.left = tk.left, !.key = key]
        isGroup == isJidGroup(key.remoteJid)
    IN  IF ~antidelete.GROUP /\ ~antidelete.PRIVATE
        THEN DelContinue(DelLog(t0, "DEBUG", "Anti-delete disabled"), "Skipped")
        ELSE DelCall(t0, "load", "store.loadMessage", "aLoad")

\* One key, up to the store lookup.
DelReceive(tk, key) ==
    LET t0 == [IdleDel EXCEPT !.left = tk.left, !.key = key]
        isGroup == isJidGroup(key.remoteJid)
    IN  IF (isGroup /\ ~antidelete.GROUP) \/ (~isGroup /\ ~antidelete.PRIVATE)
        THEN DelContinue(DelLog(t0, "DEBUG", "Anti-delete disabled"), "Skipped")
        ELSE DelCall(t0, "load", "store.loadMessage", "aLoad")

\* AfterLoad falling back on the message cache when the store has nothing
AfterLoad_CacheFallback(tk, res) ==
    LET t1 == [tk EXCEPT !.msgType = res] IN
    CASE res = "none" ->
            IF CacheHas(CacheKey(tk.key.remoteJid, tk.key.id))
            THEN DelCall(tk, "send", TargetJid(tk.key), "aSend")
            ELSE DelContinue(DelLog(tk, "WARN", "No stored message found"), "NoStored")
      [] res \in {"throw", "noContent"} -> DelCatch(tk)
      [] res \in {"imageMessage", "videoMessage", "documentMessage"} ->
            DelCall(t1, "download", res, "aDownload")
      [] OTHER -> DelCall(t1, "send", TargetJid(tk.key), "aSend")

\* From the result of the store lookup to the next await.
AfterLoad(tk, res) ==
    LET t1 == [tk EXCEPT !.msgType = res] IN
    CASE res = "none" -> DelContinue(DelLog(tk, "WARN", "No stored message found"), "NoStored")
      [] res \in {"throw", "noContent"} -> DelCatch(tk)
      [] res \in {"imageMessage", "videoMessage", "documentMessage"} ->
            DelCall(t1, "download", res, "aDownload")
      [] OTHER -> DelCall(t1, "send", TargetJid(tk.key), "aSend")

DeleteEvent(n) ==
    /\ del.pc = "idle"
    /\ del' = IF n = 0 THEN DelLog(IdleDel, "DEBUG", "messages.delete triggered")
              ELSE [DelLog(IdleDel, "DEBUG", "messages.delete triggered")
                       EXCEPT !.pc = "loop", !.left = n]
    /\ UNCHANGED <<antidelete, dispatchVars, cacheVars>>

DelStart(key) ==
    /\ del.pc = "loop"
    /\ del.left > 0
    /\ del' = DelReceive(del, key)
    /\ UNCHANGED <<antidelete, dispatchVars, cacheVars>>

DelNext ==
    /\ del.pc = "done"
    /\ del' = [IdleDel EXCEPT !.pc = "loop", !.left = del.left]
    /\ UNCHANGED <<antidelete, dispatchVars, cacheVars>>

DelEnd ==
    /\ del.pc = "loop"
    /\ del.left = 0
    /\ del' = IdleDel
    /\ UNCHANGED <<antidelete, dispatchVars, cacheVars>>

\* store.loadMessage settles
DelLoadDone(res) ==
    /\ del.pc = "aLoad"
    /\ del' = AfterLoad(DelSettle(del, IF res = "throw" THEN "throw" ELSE "ok"), res)
    /\ UNCHANGED <<antidelete, dispatchVars, cacheVars>>

\* downloadAsBuffer settles: it returns the buffer, or null after catching
\* and logging the failure of the download; `if (buffer)` guards the send.
DelDownloadDone(ok) ==
    /\ del.pc = "aDownload"
    /\ del' = IF ok
              THEN DelCall(DelSettle(del, "ok"), "send", TargetJid(del.key), "aSend")
              ELSE DelRestored(DelLog(DelSettle(del, "null"), "ERROR", "downloadAsBuffer error"))
    /\ UNCHANGED <<antidelete, dispatchVars, cacheVars>>

\* the awaited sock.sendMessage(targetJid, ...) settles
DelSendDone(ok) ==
    /\ del.pc = "aSend"
    /\ del' = IF ok THEN DelRestored(DelSettle(del, "ok"))
              ELSE DelCatch(DelSettle(del, "throw"))
    /\ UNCHANGED <<antidelete, dispatchVars, cacheVars>>

DeleteNext ==
    \/ \E n \in 0..MaxKeys : DeleteEvent(n)
    \/ \E key \in DelKeys : DelStart(key)
    \/ DelNext
    \/ DelEnd
    \/ \E res \in StoreResults : DelLoadDone(res)
    \/ \E ok \in BOOLEAN : DelDownloadDone(ok)
    \/ \E ok \in BOOLEAN : DelSendDone(ok)

\* The delete handler not running, recovery enabled for both kinds of chat.
DeleteIdle ==
    /\ antidelete = [GROUP |-> TRUE, PRIVATE |-> TRUE, SEND_TO_ORIGINAL |-> FALSE]
    /\ del = IdleDel

CacheIdle ==
    /\ messageCache = <<>>
    /\ now = 0
    /\ lastRun = 0
    /\ upd = IdleUpd

\* The registry and the configuration of the cache specification.
DispatchIdle ==
    /\ MODE = "public"
    /\ cfg = [READ_MESSAGE |-> FALSE, AUTO_REACT_NEWSLETTER |-> FALSE]
    /\ commandHandlers = LoadFiles(EmptyRegistry, <<grouptest>>, 1).handlers
    /\ pluginInfo = LoadFiles(EmptyRegistry, <<grouptest>>, 1).info
    /\ tasks = [t \in Tasks |-> IdleTask]

Init == DispatchInit /\ CacheIdle /\ DeleteIdle

Next == DispatchNext

Spec == Init /\ [][Next]_vars

\* The message cache and the recovery of deleted messages from it.
ReloadInit == RegistryNew /\ CacheIdle /\ DeleteIdle

SpecReload == ReloadInit /\ [][ReloadNext]_vars

CacheInit == DispatchIdle /\ CacheIdle /\ DeleteIdle

DeleteInit == DispatchIdle /\ CacheIdle /\ antidelete \in Toggles /\ del = IdleDel

SpecDelete == DeleteInit /\ [][DeleteNext]_vars

SpecCache == CacheInit /\ [][CacheNext]_vars

(***************************************************************************)
(* The three kinds of handler side by side: the main messages.upsert       *)
(* handler on mode commands and others, the messages.update handler on a   *)
(* cache that holds a text and an image, and the messages.delete handler.  *)
(***************************************************************************)
ModeMessages ==
    {[key |-> k, message |-> [type |-> "conversation", text |-> Text(TRUE, w)]] :
        k \in {Key(ownerJid, NoJid, FALSE), Key(userJid, NoJid, FALSE),
                Key(groupJid, ownerJid, FALSE), Key(groupJid, botJid, TRUE)},
        w \in {<<"mode", "private">>, <<"mode", "PUBLIC">>, <<"mode", "bogus">>, <<"mode">>,
                <<"gt">>, <<"ping">>}}

ModeNext ==
    \/ \E t \in Tasks :
          \/ Upsert(t, 1, "notify")
          \/ \E m \in ModeMessages : StartMessage(t, m)
          \/ NextIteration(t)
          \/ EndBatch(t)
          \/ \E ok \in BOOLEAN : SendDone(t, ok)
          \/ \E res \in Outcomes : ExecDone(t, res)
    \/ UpdateEvent(1)
    \/ \E u \in Updates : UpdStart(u)
    \/ UpdNext
    \/ UpdEnd
    \/ \E ok \in BOOLEAN : UpdDownloadDone(ok)
    \/ \E ok \in BOOLEAN : UpdSendDone(ok)
    \/ DeleteNext

ModeInit ==
    /\ DispatchIdle
    /\ messageCache =
          CacheAll(<<>>, <<CacheMessage(userJid, "MSG1", CachedContent("conversation", "hello")),
                           CacheMessage(userJid, "MSG2", CachedContent("imageMessage", "pic"))>>,
                   0)
    /\ now = 0
    /\ lastRun = 0
    /\ upd = IdleUpd
    /\ DeleteIdle

SpecMode == ModeInit /\ [][ModeNext]_vars

(***************************************************************************)
(* Handlers that hang.  sock.ev.emit calls the async listener and does not *)
(* wait for the promise it returns, so a later event starts a new          *)
(* invocation while an earlier one is suspended.  An awaited socket call   *)
(* settles in the end; handler.execute is code of the plugin and may never *)
(* settle, so ExecDone has no fairness.                                    *)
(***************************************************************************)
HangTasks == {1, 2}

HangMessages ==
    {[key |-> k, message |-> [type |-> "conversation", text |-> Text(TRUE, <<w>>)]] :
        k \in {Key(userJid, NoJid, FALSE), Key(groupJid, userJid, FALSE)},
        w \in {"gt", "ping"}}

HangStep(t) ==
    \/ \E m \in HangMessages : StartMessage(t, m)
    \/ NextIteration(t)
    \/ EndBatch(t)
    \/ \E ok \in BOOLEAN : SendDone(t, ok)

HangNext ==
    \E t \in HangTasks :
        \/ \E n \in 0..MaxBatch : Upsert(t, n, "notify")
        \/ HangStep(t)
        \/ \E res \in Outcomes : ExecDone(t, res)

HangInit ==
    /\ MODE = "public"
    /\ cfg = [READ_MESSAGE |-> FALSE, AUTO_REACT_NEWSLETTER |-> FALSE]
    /\ commandHandlers = LoadFiles(EmptyRegistry, <<grouptest>>, 1).handlers
    /\ pluginInfo = LoadFiles(EmptyRegistry, <<grouptest>>, 1).info
    /\ tasks = [t \in HangTasks |-> IdleTask]
    /\ CacheIdle
    /\ DeleteIdle

SpecHang ==
    /\ HangInit
    /\ [][HangNext]_vars
    /\ \A t \in HangTasks : WF_vars(HangStep(t))

(***************************************************************************)
(* Handlers that write to their context.  context.pluginInfo is the object *)
(* plugins.pluginInfo holds for the pattern, and context.contextInfo is    *)
(* the module's globalContextInfo: both are passed by reference.  Here the *)
(* running handler writes to context.pluginInfo.group or to .owner.        *)
(***************************************************************************)
ExecMutates(t, field) ==
    /\ tasks[t].pc = "aExec"
    /\ InfoGet(tasks[t].handler.command.source) = tasks[t].info
    /\ LET written == IF field = "group" THEN [tasks[t].info EXCEPT !.group = ~@]
                      ELSE [tasks[t].info EXCEPT !.owner = ~@]
       IN  /\ pluginInfo' = InfoSet(pluginInfo, tasks[t].handler.command.source, written)
           /\ tasks' = [tasks EXCEPT ![t].info = written]
    /\ UNCHANGED <<MODE, cfg, commandHandlers, cacheVars, deleteVars>>

ContextNext ==
    \E t \in Tasks :
        \/ \E n \in 0..MaxBatch : Upsert(t, n, "notify")
        \/ \E m \in HangMessages : StartMessage(t, m)
        \/ NextIteration(t)
        \/ EndBatch(t)
        \/ \E ok \in BOOLEAN : SendDone(t, ok)
        \/ \E res \in Outcomes : ExecDone(t, res)
        \/ \E field \in {"group", "owner"} : ExecMutates(t, field)

SpecContext == CacheInit /\ [][ContextNext]_vars

(***************************************************************************)
(* What the claims speak of, read off a task's trace.                      *)
(***************************************************************************)
Events(tk, k) == {i \in 1..Len(tk.tr) : tk.tr[i].k = k}
SendsOf(tk, kinds) == {i \in Events(tk, "send") : tk.tr[i].v \in kinds}
Executed(tk) == Events(tk, "execute") # {}
Logged(tk, type, message) ==
    \E i \in Events(tk, "log") : tk.tr[i].type = type /\ tk.tr[i].v = message

\* The account that wrote the message: the local account (fromMe), the group
\* member (participant) or the peer of a private chat.
Author(m) ==
    IF m.key.fromMe THEN botJid
    ELSE IF isJidGroup(m.key.remoteJid) THEN m.key.participant
    ELSE m.key.remoteJid
NonOwner(m) == ~m.key.fromMe /\ Author(m) # ownerJid
IsCommand(m) ==
    m.message.type \in TextTypes /\ m.message.text.pfx /\ m.message.text.words # <<>>

Refusals == {"ownerRefusal", "groupRefusal", "adminRefusal", "botAdminRefusal"}
Terminals == {"NotCommand", "Dropped", "NotFound", "Rejected", "Succeeded", "Failed"}

(***************************************************************************)
(* C1 (as claimed): a handler whose definition declares owner: true is     *)
(* never executed for a message whose author is not the owner, whatever    *)
(* else is registered.  The code reads the flags by pattern source, so a   *)
(* second definition with the same source text decides them.               *)
(***************************************************************************)
C1_OwnerOnlyNeverInvoked ==
    \A t \in DOMAIN tasks :
        (tasks[t].pluginFound /\ tasks[t].handler.flags.owner /\ NonOwner(tasks[t].m))
            => ~Executed(tasks[t])

(***************************************************************************)
(* C2 (as claimed): when a groupMetadata query of the admin or bot-admin   *)
(* check throws, the handler is not executed and a warning is logged.      *)
(* The code logs the warning and goes on to the next check and the call.   *)
(***************************************************************************)
C2_FailedQueryDenies ==
    \A t \in DOMAIN tasks :
        (\E i \in Events(tasks[t], "query") : tasks[t].tr[i].res = "throw")
            => /\ ~Executed(tasks[t])
               /\ \/ Logged(tasks[t], "WARN", "Admin check failed")
                  \/ Logged(tasks[t], "WARN", "Bot admin check failed")

(***************************************************************************)
(* C3 (as claimed): the checks run in the order owner, group, admin,       *)
(* bot-admin; the first failing one sends its refusal, and after a refusal *)
(* nothing more of the gate happens: no second refusal, no group-metadata  *)
(* query, no execution.                                                    *)
(***************************************************************************)
C3_FirstFailureEndsGate ==
    \A t \in DOMAIN tasks :
        LET tk == tasks[t]
            refused == SendsOf(tk, Refusals)
            ownerFails == tk.pluginFound /\ tk.info.owner /\ ~tk.isOwner
            groupFails == tk.pluginFound /\ tk.info.group /\ ~isGroupMsg(tk)
        IN  /\ Cardinality(refused) <= 1
            /\ \A i \in refused : \A j \in (i + 1)..Len(tk.tr) :
                  tk.tr[j].k \notin {"query", "execute"}
            /\ ownerFails =>
                  /\ Events(tk, "query") = {}
                  /\ \A i \in refused : tk.tr[i].v = "ownerRefusal"
            /\ (~ownerFails /\ groupFails) =>
                  /\ Events(tk, "query") = {}
                  /\ \A i \in refused : tk.tr[i].v = "groupRefusal"
            /\ \A i, j \in Events(tk, "query") :
                  (tk.tr[i].v = "botAdmin" /\ tk.tr[j].v = "admin") => j < i
            /\ tk.term = "Rejected" /\ tk.pluginFound => Cardinality(refused) = 1

(***************************************************************************)
(* C4: a message whose mode check read private and whose author is not the *)
(* owner is dropped: no reply is sent, nothing is queried, no handler is   *)
(* executed, whatever its command, core or plugin.  The check reads the    *)
(* flag as the mode command last set it, for the later messages of the     *)
(* same batch too.                                                         *)
(***************************************************************************)
C4_PrivateModeDrops ==
    \A t \in DOMAIN tasks :
        (tasks[t].modeSeen = "private" /\ NonOwner(tasks[t].m))
            => /\ tasks[t].term = "Dropped"
               /\ tasks[t].pc \in {"done", "idle"}
               /\ Events(tasks[t], "send") = {}
               /\ Events(tasks[t], "query") = {}
               /\ ~Executed(tasks[t])

\* A non-owner's command that a registered plugin would take is dropped in a
\* group, before the last message of its batch.
C4_Witness ==
    \E t \in DOMAIN tasks :
        /\ tasks[t].modeSeen = "private"
        /\ NonOwner(tasks[t].m)
        /\ isGroupMsg(tasks[t])
        /\ tasks[t].m.message.text.words = <<"gt">>
        /\ IsCommand(tasks[t].m)
        /\ Matching("gt") # {}
        /\ tasks[t].term = "Dropped"
        /\ tasks[t].left > 0

(***************************************************************************)
(* C5 (as claimed): in private mode a command written by the owner is not  *)
(* dropped, in a private chat or in a group.  The code compares the chat   *)
(* (remoteJid) with the owner, so the owner is not recognised in a group.  *)
(***************************************************************************)
C5_OwnerNeverDropped ==
    \A t \in DOMAIN tasks :
        (tasks[t].modeSeen = "private" /\ Author(tasks[t].m) = ownerJid
                /\ IsCommand(tasks[t].m))
            => tasks[t].term # "Dropped"

(***************************************************************************)
(* C6 (as claimed): the lookup of the messages.update handler yields       *)
(* nothing for an entry older than the retention window, and nothing is    *)
(* sent to the owner when it yields nothing; otherwise it yields a content *)
(* that was recorded.                                                      *)
(***************************************************************************)
C6_LookupHonoursRetention ==
    upd.looked =>
        /\ upd.found => upd.at - upd.original.timestamp <= RetentionWindow
        /\ ~upd.found => Events(upd, "send") = {}
        /\ upd.found =>
              upd.original.message \in {m.message : m \in CacheMessages} \ {NoCachedContent}

(***************************************************************************)
(* C7: after every run of the caching messages.upsert handler no entry of  *)
(* the cache was inserted more than the retention window before that run.  *)
(***************************************************************************)
C7_NoStaleEntryAfterRecord ==
    \A k \in DOMAIN messageCache :
        lastRun - messageCache[k].timestamp <= RetentionWindow

\* A run has evicted an entry that an earlier lookup had found, and has kept
\* an entry that is exactly as old as the retention window.
C7_Witness ==
    /\ upd.found
    /\ lastRun - upd.original.timestamp > RetentionWindow
    /\ ~CacheHas(CacheKey(upd.u.key.remoteJid, upd.u.key.id))
    /\ \E k \in DOMAIN messageCache :
          lastRun - messageCache[k].timestamp = RetentionWindow

(***************************************************************************)
(* C8 (as claimed): when handler.execute throws, whatever it throws, the   *)
(* error is logged with the command name, one failure notice is sent to    *)
(* the chat, and the for loop goes on to the next message (the handler     *)
(* does not return), also when sending the failure notice throws.          *)
(***************************************************************************)
C8_ExecuteFailureContained ==
    \A t \in DOMAIN tasks :
        LET tk == tasks[t] IN
        \A i \in Events(tk, "execute") :
            tk.tr[i].res \in {"throw", "throwNullish"} =>
                /\ Len(tk.tr) >= i + 2
                /\ tk.tr[i + 1].k = "log"
                /\ tk.tr[i + 1].type = "ERROR"
                /\ tk.tr[i + 1].v = "Plugin failed"
                /\ tk.tr[i + 1].res = tk.command
                /\ SendsOf(tk, {"failureNotice"}) = {i + 2}
                /\ tk.pc \in {"aSend", "done"}
                /\ tk.pc = "done" => tk.term = "Failed"

(***************************************************************************)
(* C9 (as claimed): a sock.sendMessage that throws while one message is    *)
(* processed does not keep the later messages of the batch from being      *)
(* processed: the handler does not return with messages of the batch left. *)
(***************************************************************************)
C9_SendFailureContained ==
    \A t \in DOMAIN tasks :
        LET tk == tasks[t]
            n == Len(tk.tr)
        IN  (tk.pc = "idle" /\ n >= 2 /\ tk.tr[n - 1].k = "send" /\ tk.tr[n - 1].res = "throw")
                => tk.left = 0

(***************************************************************************)
(* C10 (as claimed): every message of a batch reaches exactly one of the   *)
(* terminal states; execute is called at most once per message, and once   *)
(* when the message is a command the mode admits, its token matches a      *)
(* plugin pattern and no check refuses.                                    *)
(***************************************************************************)
C10_OneTerminalOneCall ==
    \A t \in DOMAIN tasks :
        LET tk == tasks[t] IN
        /\ tk.term \in Terminals \cup {None}
        /\ tk.pc = "idle" => tk.left = 0
        /\ Cardinality(Events(tk, "execute")) <= 1
        /\ (tk.pc = "done" /\ tk.pluginFound /\ SendsOf(tk, Refusals) = {})
              => Cardinality(Events(tk, "execute")) = 1

(***************************************************************************)
(* C11: a command that is no core command and that no registered pattern   *)
(* matches ends as not found: the warning is logged, no handler is         *)
(* executed, nothing is queried and no message is sent.                    *)
(***************************************************************************)
CoreCommands == {"ping", "mode", "resetsession", "alive", "menu"}

\* The message got past the mode check and the prefix test, and the optional
\* read receipt has settled: the command went to the core and plugin lookup.
LookedUp(tk) ==
    /\ tk.modeSeen # None
    /\ tk.term \notin {"Dropped", "NotCommand"}
    /\ tk.pc # "aRead"

C11_UnknownCommandNotFound ==
    \A t \in DOMAIN tasks :
        LET tk == tasks[t] IN
        (LookedUp(tk) /\ tk.command \notin CoreCommands /\ Matching(tk.command) = {})
            => /\ tk.term = "NotFound"
               /\ tk.pc = "done"
               /\ Logged(tk, "WARN", "Command not found")
               /\ Events(tk, "send") = {}
               /\ Events(tk, "query") = {}
               /\ ~Executed(tk)

\* An unknown command arrives while a plugin is registered.
C11_Witness ==
    \E t \in DOMAIN tasks :
        /\ tasks[t].term = "NotFound"
        /\ tasks[t].command = "nope"
        /\ Len(commandHandlers) > 0
        /\ tasks[t].left > 0

(***************************************************************************)
(* C12 (as claimed): when the definition of a file has been loaded again,  *)
(* a dispatch that starts afterwards and calls a handler of that file      *)
(* calls the most recently loaded one, never an earlier one.               *)
(***************************************************************************)
C12_LatestCallbackWins ==
    [][\A t \in Tasks :
          (~tasks[t].pluginFound /\ tasks'[t].pluginFound /\ tasks'[t].pc = "aExec")
              => \E i \in Matching(tasks'[t].command) :
                    /\ commandHandlers[i].handler = tasks'[t].handler
                    /\ \A j \in Matching(tasks'[t].command) :
                          commandHandlers[j].obj.file = commandHandlers[i].obj.file
                              => commandHandlers[j].obj.gen <= commandHandlers[i].obj.gen
      ]_vars

(***************************************************************************)
(* C13 (as claimed): after any number of loadPlugins runs commandHandlers  *)
(* holds at most one handler per pattern source, as many handlers as       *)
(* pluginInfo has entries.                                                 *)
(***************************************************************************)
C13_OneHandlerPerPattern ==
    /\ \A i, j \in 1..Len(commandHandlers) :
          commandHandlers[i].handler.command.source = commandHandlers[j].handler.command.source
              => i = j
    /\ Len(commandHandlers) = Cardinality(DOMAIN pluginInfo)

(***************************************************************************)
(* C14 (as claimed): after a run of loadPlugins the registry holds no      *)
(* handler of a file that is not in the directory the run listed.          *)
(***************************************************************************)
C14_ReloadReplacesRegistry ==
    [][\A dir \in ReloadDirs :
          LoadPlugins(dir)
              => \A i \in 1..Len(commandHandlers') :
                    \E k \in 1..Len(dir) : dir[k].file = commandHandlers'[i].obj.file
      ]_vars

(***************************************************************************)
(* C15: a dispatch keeps the handler and the requirement flags it looked   *)
(* up, whatever loadPlugins does to the registry while the dispatch is     *)
(* suspended: the checks it makes are those of the flags it looked up, and *)
(* what it calls is the execute function of the handler it looked up, a    *)
(* handler with its pattern and its flags.                                 *)
(***************************************************************************)
C15_InFlightKeepsDescriptor ==
    /\ [][\A t \in Tasks :
             (tasks[t].pluginFound /\ tasks'[t].pluginFound)
                 => /\ tasks'[t].handler = tasks[t].handler
                    /\ tasks'[t].info = tasks[t].info
         ]_vars
    /\ [](\A t \in Tasks :
             LET tk == tasks[t] IN
             \A i \in Events(tk, "execute") :
                 /\ tk.tr[i].v = tk.handler.execute.file
                 /\ tk.tr[i].gen = tk.handler.execute.gen
                 /\ tk.handler.command # NoRegex
                 /\ tk.info.owner => tk.isOwner
                 /\ tk.info.group => isGroupMsg(tk)
                 /\ (tk.info.admin /\ isGroupMsg(tk))
                       => \E j \in Events(tk, "query") : j < i /\ tk.tr[j].v = "admin"
                 /\ (~tk.info.admin) => \A j \in Events(tk, "query") : tk.tr[j].v # "admin")

\* A handler is being executed after its admin check, while a run of
\* loadPlugins made during the dispatch has put other flags and a newer
\* handler for its pattern into the registry.
C15_Witness ==
    \E t \in Tasks :
        /\ tasks[t].pc = "aExec"
        /\ Events(tasks[t], "query") # {}
        /\ InfoGet(tasks[t].handler.command.source) # tasks[t].info
        /\ \E i \in 1..Len(commandHandlers) :
              commandHandlers[i].obj.gen > tasks[t].handler.execute.gen

(***************************************************************************)
(* C16 (as claimed): loadPlugins registers no definition that lacks the    *)
(* pattern or the execute function, so no dispatch matches one.            *)
(***************************************************************************)
C16_OnlyValidRegistered ==
    /\ \A i \in 1..Len(commandHandlers) :
          /\ commandHandlers[i].handler.command # NoRegex
          /\ commandHandlers[i].handler.execute # NoCallback
    /\ \A t \in Tasks : tasks[t].pluginFound => tasks[t].handler.execute # NoCallback

(***************************************************************************)
(* C17 (as claimed): a run of loadPlugins registers every valid definition *)
(* of the directory, whatever the other files do when they are required.   *)
(***************************************************************************)
C17_LoadFailureIsolated ==
    [][\A dir \in ReloadDirs :
          LoadPlugins(dir)
              => \A k \in 1..Len(dir) :
                    (dir[k].load = "ok" /\ dir[k].command # NoRegex /\ dir[k].execute)
                        => \E i \in 1..Len(commandHandlers') :
                              commandHandlers'[i].obj = [file |-> dir[k].file, gen |-> NextGen]
      ]_vars

(***************************************************************************)
(* C18 (as claimed): in the messages.delete handler a stored entry without *)
(* content, a failed download or a failed send for one key does not keep   *)
(* the later keys of the event from being processed: the handler does not  *)
(* return with keys left.                                                  *)
(***************************************************************************)
C18_DeleteBatchFinished ==
    (del.pc = "idle" /\ \A i \in Events(del, "load") : del.tr[i].res # "throw")
        => del.left = 0

(***************************************************************************)
(* C19: in the messages.update handler a download or a send that fails for *)
(* one update is caught and logged, the loop goes on to the next update,   *)
(* and the handler never returns with updates left.                        *)
(***************************************************************************)
C19_UpdateFailureContained ==
    /\ upd.pc = "idle" => upd.left = 0
    /\ \A i \in Events(upd, "download") \cup Events(upd, "send") :
          upd.tr[i].res = "throw"
              => /\ upd.pc = "done"
                 /\ Logged(upd, "DEBUG", "Recovery failed")

\* The send for the first of two updates has failed.
C19_Witness ==
    /\ \E i \in Events(upd, "send") : upd.tr[i].res = "throw"
    /\ upd.pc = "done"
    /\ upd.left > 0

(***************************************************************************)
(* C20: an update-to-null for a message of another account whose key has a *)
(* cache entry with a text, recorded within the retention window, sends    *)
(* the owner the text that the cache holds at that moment, once; an update *)
(* for a message of the local account or of status@broadcast sends         *)
(* nothing.                                                                *)
(***************************************************************************)
TextSends(tk) == {i \in Events(tk, "send") : tk.tr[i].res # "detached"}

C20_RecoveredTextIsCachedText ==
    /\ [][(upd.pc = "loop" /\ upd'.pc # "loop" /\ upd'.u.null /\ ~upd'.u.key.fromMe
              /\ upd'.u.key.remoteJid # statusJid)
            => LET key == CacheKey(upd'.u.key.remoteJid, upd'.u.key.id) IN
               (/\ key \in DOMAIN messageCache
                /\ messageCache[key].message.type \in {"conversation", "extendedTextMessage"}
                /\ now - messageCache[key].timestamp <= RetentionWindow)
                   => /\ upd'.pc = "aSend"
                      /\ Cardinality(TextSends(upd')) = 1
                      /\ \A i \in TextSends(upd') :
                            upd'.tr[i].v = messageCache[key].message.text
        ]_vars
    /\ []((upd.u.key.fromMe \/ upd.u.key.remoteJid = statusJid) => Events(upd, "send") = {})
    /\ [](Cardinality(TextSends(upd)) <= 1)

\* A text recorded for the key half an hour before is being sent.
C20_Witness ==
    /\ upd.pc = "aSend"
    /\ upd.found
    /\ upd.original.message = CachedContent("conversation", "bye")
    /\ upd.at - upd.original.timestamp = ClockStep
    /\ \E i \in TextSends(upd) : upd.tr[i].v = "bye"


(***************************************************************************)
(* C21 (as claimed): an update-to-null whose key has no cache entry sends  *)
(* nothing, logs one warning for the miss, throws nothing, and the loop    *)
(* goes on to the next update.  The code leaves the iteration with a bare  *)
(* `continue`: nothing is logged.                                          *)
(***************************************************************************)
C21_CacheMissReported ==
    (upd.looked /\ ~upd.found)
        => /\ Events(upd, "send") = {}
           /\ upd.pc = "done"
           /\ Cardinality({i \in Events(upd, "log") : upd.tr[i].type = "WARN"}) = 1


(***************************************************************************)
(* C22: a key of a messages.delete event whose kind of chat has recovery   *)
(* switched off (a group key with ANTIDELETE_GROUP off, any other key with *)
(* ANTIDELETE_PRIVATE off) is skipped: the store is not asked for it,      *)
(* nothing is downloaded, nothing is sent, whatever the other toggle is.   *)
(***************************************************************************)
DelDisabled(key) ==
    \/ isJidGroup(key.remoteJid) /\ ~antidelete.GROUP
    \/ ~isJidGroup(key.remoteJid) /\ ~antidelete.PRIVATE

C22_DisabledKeySkipped ==
    (del.key # NoDelKey /\ DelDisabled(del.key))
        => /\ del.pc = "done"
           /\ del.term = "Skipped"
           /\ Events(del, "load") = {}
           /\ Events(del, "download") = {}
           /\ Events(del, "send") = {}

\* A group key is skipped while recovery is on for private chats, before the
\* last key of the event.
C22_Witness ==
    /\ isJidGroup(del.key.remoteJid)
    /\ ~antidelete.GROUP
    /\ antidelete.PRIVATE
    /\ del.term = "Skipped"
    /\ del.left > 0


(***************************************************************************)
(* C23 (as claimed): a handler.execute that never settles keeps no other   *)
(* message from being dispatched: an invocation that has messages of its   *)
(* batch left gets to the next of them, and a message of another           *)
(* invocation that waits at the top of the loop is started.  The code      *)
(* awaits handler.execute inside the for loop of the batch, so the first   *)
(* part fails; the second holds.                                           *)
(***************************************************************************)
C23_HungHandlerNoWedge ==
    /\ \A t \in HangTasks : (tasks[t].left > 1) ~> (tasks[t].left <= 1)
    /\ \A t \in HangTasks :
          (tasks[t].pc = "loop" /\ tasks[t].left > 0) ~> (tasks[t].pc # "loop")


(***************************************************************************)
(* C24: the messages of a batch are processed one after the other.  The    *)
(* loop comes back to its top only from a message that has reached a       *)
(* terminal state with no call of it pending; a message begins only at the *)
(* top of the loop; and the count of the messages left goes down by one,   *)
(* when a message ends.                                                    *)
(***************************************************************************)
C24_BatchInSequence ==
    [][\A t \in Tasks :
          LET old == tasks[t]
              new == tasks'[t]
              Pending(tk) == {i \in 1..Len(tk.tr) : tk.tr[i].res = "pending"}
              Awaits == {"aReact", "aRead", "aSend", "aQuery", "aExec"}
          IN  /\ (new.pc = "loop" /\ old.pc \notin {"loop", "idle"})
                    => /\ old.pc = "done"
                       /\ old.term \in Terminals
                       /\ Pending(old) = {}
                       /\ new.left = old.left
              /\ (old.m = NoMessage /\ new.m # NoMessage) => old.pc = "loop"
              /\ (old.pc \in Awaits /\ new.m # old.m) => FALSE
              /\ (old.pc # "idle" /\ new.left # old.left)
                    => /\ new.left = old.left - 1
                       /\ old.term = None
                       /\ new.term # None
                       /\ new.pc \in {"done", "idle"}
              /\ new.pc \in Awaits <=> Pending(new) # {}
      ]_vars

\* The first message of a batch has ended after a group-metadata query and a
\* handler call, with a message of the batch left.
C24_Witness ==
    \E t \in Tasks :
        /\ tasks[t].pc = "done"
        /\ tasks[t].term = "Succeeded"
        /\ Events(tasks[t], "query") # {}
        /\ Executed(tasks[t])
        /\ tasks[t].left = 1


(***************************************************************************)
(* C25: config.MODE changes only in the step of the main handler that      *)
(* processes a mode command of the owner with the argument private or      *)
(* public, and it becomes that argument; every other step of the main      *)
(* handler, of the messages.update handler and of the messages.delete      *)
(* handler leaves it as it is.                                             *)
(***************************************************************************)
C25_ModeSetOnlyByOwnerCommand ==
    [][MODE' # MODE
          => \E t \in Tasks :
                LET new == tasks'[t] IN
                /\ tasks[t].pc = "loop"
                /\ new.pc = "aSend"
                /\ new.command = "mode"
                /\ ~NonOwner(new.m)
                /\ ValidMode(new.args)
                /\ MODE' = toLowerCase(new.args[1])
                /\ upd' = upd
                /\ del' = del
      ]_vars

\* The owner's mode command has made the mode private while the two recovery
\* handlers are suspended on their calls.
C25_Witness ==
    /\ MODE = "private"
    /\ \E t \in Tasks : tasks[t].pc = "aSend" /\ tasks[t].snd = "modeChanged"
    /\ upd.pc = "aSend"
    /\ del.pc = "aSend"


(***************************************************************************)
(* C26 (as claimed): what a handler writes to its context is not seen by   *)
(* a later dispatch: the requirement flags a dispatch gets for the handler *)
(* it found are those the handler declares, whatever earlier handlers did  *)
(* to the pluginInfo of their context.  (One definition is registered      *)
(* here, so no other definition decides the flags.)                        *)
(***************************************************************************)
C26_ContextNotShared ==
    [][\A t \in Tasks :
          (~tasks[t].pluginFound /\ tasks'[t].pluginFound)
              => tasks'[t].info = tasks'[t].handler.flags
      ]_vars


(***************************************************************************)
(* C27: a command whose token is ping, mode, alive, menu or resetsession   *)
(* never reaches the plugins: no handler is found or executed for it, no   *)
(* requirement is checked, whatever is registered.  ping, alive and menu   *)
(* send their one reply, quoting the message, to whoever the mode check    *)
(* admitted; mode and resetsession of a sender who is not the owner send   *)
(* the owner-only refusal and nothing else.                                *)
(***************************************************************************)
C27_CoreCommandsFirst ==
    \A t \in Tasks :
        LET tk == tasks[t]
            sends == Events(tk, "send")
            Only(kind) ==
                /\ Cardinality(sends) = 1
                /\ \A i \in sends : tk.tr[i].v = kind /\ tk.tr[i].type = "quoted"
        IN  (LookedUp(tk) /\ tk.command \in CoreCommands)
                => /\ ~tk.pluginFound
                   /\ ~Executed(tk)
                   /\ Events(tk, "query") = {}
                   /\ SendsOf(tk, Refusals) = {}
                   /\ tk.command = "ping" => Only("pong")
                   /\ tk.command = "alive" => Only("alive")
                   /\ tk.command = "menu" => Only("menu")
                   /\ (tk.command \in {"mode", "resetsession"} /\ NonOwner(tk.m))
                         => Only("ownerOnly")

\* A group member who is not the owner has got the reply of ping while a
\* plugin is registered for the token ping.
C27_Witness ==
    \E t \in Tasks :
        /\ tasks[t].command = "ping"
        /\ Matching("ping") # {}
        /\ NonOwner(tasks[t].m)
        /\ isGroupMsg(tasks[t])
        /\ tasks[t].term = "Succeeded"
        /\ SendsOf(tasks[t], {"pong"}) # {}


(***************************************************************************)
(* C28 (as claimed): the lookup is case-insensitive on the command token.  *)
(* When the token equals an alias of a registered pattern under case       *)
(* folding, the dispatch finds a handler whose pattern has that alias;     *)
(* when it equals none, it finds no handler.  (Tokens of the core commands *)
(* are left out.)  The code folds the token only and tests the pattern as  *)
(* it was written.                                                         *)
(***************************************************************************)
C28_LookupFoldsCase ==
    \A t \in Tasks :
        LET tk == tasks[t]
            words == tk.m.message.text.words
            token == IF words = <<>> THEN "" ELSE Head(words)
            Folded(source) == {toLowerCase(a) : a \in Aliases(source)}
            hits == {i \in 1..Len(commandHandlers) :
                        toLowerCase(token) \in Folded(commandHandlers[i].handler.command.source)}
        IN  (LookedUp(tk) /\ tk.command \notin CoreCommands)
                => /\ hits # {}
                        => /\ tk.pluginFound
                           /\ \E i \in hits : commandHandlers[i].handler = tk.handler
                   /\ hits = {} => ~tk.pluginFound /\ tk.term = "NotFound"


(***************************************************************************)
(* C29 (as claimed): a handler that declares group: true is never executed *)
(* for a command sent in a chat that is no group, and nothing is queried;  *)
(* unless the owner check refused first, the group-only refusal is sent,   *)
(* and no other refusal.  The code reads the flag by pattern source, so a  *)
(* second definition with the same source text decides it.                 *)
(***************************************************************************)
C29_GroupOnlyNeverInvoked ==
    \A t \in Tasks :
        LET tk == tasks[t] IN
        (tk.pluginFound /\ tk.handler.flags.group /\ ~isGroupMsg(tk))
            => /\ ~Executed(tk)
               /\ Events(tk, "query") = {}
               /\ SendsOf(tk, {"ownerRefusal"}) = {}
                     => /\ SendsOf(tk, {"groupRefusal"}) # {}
                        /\ SendsOf(tk, Refusals) = SendsOf(tk, {"groupRefusal"})


(***************************************************************************)
(* C30 (as claimed): a handler that declares admin: true is executed only  *)
(* after a group-metadata query has found the sender to be an admin of the *)
(* chat, and one that declares botAdmin: true only after a query has found *)
(* the bot to be one; in a private chat too.  The code makes either check  *)
(* in groups only, and goes on when the query throws.                      *)
(***************************************************************************)
C30_AdminFoundBeforeExecute ==
    \A t \in Tasks :
        LET tk == tasks[t]
            Found(check, i) ==
                \E j \in Events(tk, "query") :
                    j < i /\ tk.tr[j].v = check /\ tk.tr[j].res = "admin"
        IN  \A i \in Events(tk, "execute") :
                /\ tk.handler.flags.admin => Found("admin", i)
                /\ tk.handler.flags.botAdmin => Found("botAdmin", i)


(***************************************************************************)
(* C31 (as claimed): after any sequence of loadPlugins runs, the           *)
(* requirement flags a dispatch checks are those declared by the           *)
(* definition whose execute it found.  The code stores the handlers by     *)
(* pattern object and the flags by pattern source: a run that loads the    *)
(* same source text again leaves the earlier handler first in              *)
(* commandHandlers and overwrites its flags.                               *)
(***************************************************************************)
C31_GateUsesDeclaredFlags ==
    \A t \in Tasks :
        tasks[t].pluginFound => tasks[t].info = tasks[t].handler.flags


(***************************************************************************)
(* C32: the messages.delete handler takes the content from the store only: *)
(* whatever it downloads or sends follows a store lookup that gave a       *)
(* message with content; when the store gives nothing, the miss is logged  *)
(* and nothing is downloaded or sent, whether or not messageCache holds    *)
(* the key.  The messages.update handler makes no store lookup, and what   *)
(* it sends follows a hit in messageCache.                                 *)
(***************************************************************************)
C32_DeleteReadsStoreOnly ==
    LET acts(tk) == Events(tk, "send") \cup Events(tk, "download") IN
    /\ acts(del) # {}
          => /\ del.msgType \in StoreResults \ {"none", "noContent", "throw"}
             /\ \E j \in Events(del, "load") :
                   del.tr[j].res = "ok" /\ \A i \in acts(del) : j < i
    /\ del.term = "NoStored"
          => /\ acts(del) = {}
             /\ Logged(del, "WARN", "No stored message found")
    /\ Events(upd, "load") = {}
    /\ acts(upd) # {} => upd.found

\* The store has nothing for a key that messageCache holds: the delete
\* handler has logged the miss, while the update handler recovers from the
\* cache.
C32_Witness ==
    /\ del.term = "NoStored"
    /\ CacheHas(CacheKey(del.key.remoteJid, del.key.id))
    /\ upd.pc = "aSend"
    /\ upd.found

(***************************************************************************)
(* C33: no step of the messages.update handler changes messageCache, and   *)
(* the lookup of an update gives what the cache holds for the key at that  *)
(* moment; so a second update-to-null for the same key, with no batch      *)
(* recorded in between, finds the same entry.                              *)
(***************************************************************************)
C33_UpdateLeavesCache ==
    [][upd' # upd
          => /\ messageCache' = messageCache
             /\ (~upd.looked /\ upd'.looked)
                   => LET key == CacheKey(upd'.u.key.remoteJid, upd'.u.key.id) IN
                      /\ upd'.found = (key \in DOMAIN messageCache')
                      /\ upd'.found => upd'.original = messageCache'[key]
      ]_vars

\* The first of two updates has recovered a text and sent it; the entry is in
\* the cache as it was found, and an update is left.
C33_Witness ==
    /\ upd.pc = "done"
    /\ upd.found
    /\ \E i \in TextSends(upd) : upd.tr[i].res = "ok" /\ upd.tr[i].v = upd.original.message.text
    /\ CacheGet(CacheKey(upd.u.key.remoteJid, upd.u.key.id)) = upd.original
    /\ upd.left = 1

====
